---- MODULE Spec2Model ----
(***************************************************************************)
(* MCTS/UCT teaching demo (Part 2, tic-tac-toe): the search tree, the four *)
(* phase iteration, the seeded random source and the run controller with   *)
(* its pause/cancel token.                                                 *)
(*                                                                         *)
(* Scheduling model.  The component runs on the single JavaScript thread.  *)
(* A click handler, and every continuation of an async function that is    *)
(* resumed by a setTimeout, runs to its next setTimeout without any other  *)
(* handler in between; an await of an already settled promise only yields  *)
(* to the microtask queue, so no click and no timer is served there.  One  *)
(* action of this model is therefore one macrotask: a click handler up to  *)
(* its first timer, or a timer firing and the code that follows it up to   *)
(* the next timer.  A handler reads the React state of the latest render   *)
(* when it is invoked and keeps those values (its closure) while it runs;  *)
(* refs (runTokenRef, rngRef) are read live.                               *)
(*                                                                         *)
(* Numbers.  32-bit words of the random source are pairs <<hi, lo>> of     *)
(* 16-bit halves.  Rewards are kept in half points (W2 = 2 * W).  C is     *)
(* kept in twentieths (the sliders' step is 0.05).  UCT values are fixed   *)
(* point numbers with eight decimals.                                      *)
(***************************************************************************)
EXTENDS Integers, Sequences, FiniteSets, TLC

\* ------------------------------------------------------------------ bounds
MaxStarts == 2
MaxBoardEvents == 1
MaxLoops == 2
MaxAnimatedCells == 3

\* ------------------------------------------------------------ game helpers
Cells == 0..8
NoCell == "_"
NoMove == -1
NoNode == 0
NoOutcome == "none"

LINES == << <<0, 1, 2>>, <<3, 4, 5>>, <<6, 7, 8>>, <<0, 3, 6>>,
            <<1, 4, 7>>, <<2, 5, 8>>, <<0, 4, 8>>, <<2, 4, 6>> >>

MkBoard(s) == [i \in Cells |-> s[i + 1]]

EmptyBoard == [i \in Cells |-> NoCell]

\* the for loop over LINES, from its k-th line on
RECURSIVE LineWinner(_, _, _)
LineWinner(board, lines, k) ==
  IF k > Len(lines) THEN NoOutcome
  ELSE IF /\ board[lines[k][1]] # NoCell
          /\ board[lines[k][1]] = board[lines[k][2]]
          /\ board[lines[k][1]] = board[lines[k][3]]
  THEN board[lines[k][1]]
  ELSE LineWinner(board, lines, k + 1)

\* what checkWinner returns when the loop over LINES has found w
WinnerOrDraw(board, w) ==
  IF w # NoOutcome THEN w
  ELSE IF \A i \in Cells : board[i] # NoCell THEN "D"
  ELSE NoOutcome

checkWinner(board) == WinnerOrDraw(board, LineWinner(board, LINES, 1))

RECURSIVE LegalFrom(_, _)
LegalFrom(board, i) ==
  IF i > 8 THEN << >>
  ELSE IF board[i] = NoCell THEN <<i>> \o LegalFrom(board, i + 1)
  ELSE LegalFrom(board, i + 1)

legalMoves(board) == LegalFrom(board, 0)

CountOf(board, p) == Cardinality({i \in Cells : board[i] = p})

nextPlayer(board) == IF CountOf(board, "X") = CountOf(board, "O") THEN "X" ELSE "O"

Other(p) == IF p = "X" THEN "O" ELSE "X"

\* ------------------------------------------------- seeded RNG (Mulberry32)
H16 == 65536

RECURSIVE BitXor(_, _)
BitXor(a, b) ==
  IF a = 0 THEN b
  ELSE IF b = 0 THEN a
  ELSE ((a + b) % 2) + 2 * BitXor(a \div 2, b \div 2)

RECURSIVE BitOr(_, _)
BitOr(a, b) ==
  IF a = 0 THEN b
  ELSE IF b = 0 THEN a
  ELSE (IF a % 2 = 1 \/ b % 2 = 1 THEN 1 ELSE 0) + 2 * BitOr(a \div 2, b \div 2)

RECURSIVE Pow2(_)
Pow2(k) == IF k = 0 THEN 1 ELSE 2 * Pow2(k - 1)

\* x >>> 0 of an integer whose magnitude is below 2^31
ToUint32(s) ==
  IF s >= 0 THEN <<s \div H16, s % H16>>
  ELSE <<(H16 - 1) - ((-s - 1) \div H16), (H16 - 1) - ((-s - 1) % H16)>>

WXor(u, v) == <<BitXor(u[1], v[1]), BitXor(u[2], v[2])>>

WOrSmall(u, c) == <<u[1], BitOr(u[2], c)>>

\* u >>> k for 0 < k < 16
WShr(u, k) ==
  <<u[1] \div Pow2(k), (u[2] \div Pow2(k)) + (u[1] % Pow2(k)) * Pow2(16 - k)>>

WAdd(u, v) ==
  LET lo == u[2] + v[2]
  IN <<(u[1] + v[1] + lo \div H16) % H16, lo % H16>>

\* product of two 16-bit numbers as a 32-bit word
Mul16(x, y) ==
  LET x1 == x \div 256
      x0 == x % 256
      y1 == y \div 256
      y0 == y % 256
      mid == x1 * y0 + x0 * y1
      low == x0 * y0 + (mid % 256) * 256
  IN <<x1 * y1 + mid \div 256 + low \div H16, low % H16>>

\* the low 32 bits of a product from the products of the 16-bit halves
ImulSum(ll, hl, lh) == <<(ll[1] + hl[2] + lh[2]) % H16, ll[2]>>

\* Math.imul: the low 32 bits of the product
Imul(u, v) == ImulSum(Mul16(u[2], v[2]), Mul16(u[1], v[2]), Mul16(u[2], v[1]))

GOLDEN == <<27947, 31221>>

\* t after the k-th call of a generator created with seed word s0
\* (t += 0x6D2B79F5 on every call; only t mod 2^32 is ever used)
TAfter(s0, k) ==
  LET lo == s0[2] + k * GOLDEN[2]
  IN <<(s0[1] + k * GOLDEN[1] + lo \div H16) % H16, lo % H16>>

\* the 32-bit numerator of the value a call returns when t has become tw
\* (t ^ (t >>> 14)) >>> 0
Mix3(t) == WXor(t, WShr(t, 14))

\* t ^= t + Math.imul(t ^ (t >>> 7), t | 61), and the return value
Mix2(t) == Mix3(WXor(t, WAdd(t, Imul(WXor(t, WShr(t, 7)), WOrSmall(t, 61)))))

\* t = Math.imul(t ^ (t >>> 15), t | 1), and what follows
MulberryOut(tw) == Mix2(Imul(WXor(tw, WShr(tw, 15)), WOrSmall(tw, 1)))

createMulberry32(seed) == [s |-> ToUint32(seed), k |-> 0]

\* one call rand(): the value returned (as a 32-bit numerator over 2^32)
RandWord(rng) == MulberryOut(TAfter(rng.s, rng.k + 1))

Advance(rng) == [rng EXCEPT !.k = @ + 1]

\* Math.floor(rand() * len), exact for len < 2^15
FloorMul(w, len) == (w[1] * len + (w[2] * len) \div H16) \div H16

\* rand() < 0.5
BelowHalf(w) == w[1] < 32768

randChoice(arr, rng) == arr[FloorMul(RandWord(rng), Len(arr)) + 1]

\* ------------------------------------------------------------- search tree
\* The heap holds the Node objects and the Map objects of their children,
\* each under the identity (index) it got when it was created; st is the
\* store an operation works on: [heap, maps, rng, exact].
Node(board, toMove, parent, moveFromParent, children) ==
  [board |-> board, toMove |-> toMove, parent |-> parent,
   moveFromParent |-> moveFromParent, children |-> children,
   untried |-> legalMoves(board), N |-> 0, W2 |-> 0,
   wins |-> 0, draws |-> 0, losses |-> 0, terminal |-> checkWinner(board)]

\* makeNode: a new Map and a new Node; the new node's identity is Len(heap)
makeNode(st, board, toMove, parent, moveFromParent) ==
  [st EXCEPT !.maps = Append(@, << >>),
             !.heap = Append(@, Node(board, toMove, parent, moveFromParent,
                                     Len(st.maps) + 1))]

NewId(st) == Len(st.heap)

\* { ...node }: a new object with the same field values (same Map, same parent)
ShallowCopy(st, id) == [st EXCEPT !.heap = Append(@, st.heap[id])]

Kids(st, id) == st.maps[st.heap[id].children]

RECURSIVE KeyPos(_, _, _)
KeyPos(kids, m, i) ==
  IF i > Len(kids) THEN 0
  ELSE IF kids[i].m = m THEN i
  ELSE KeyPos(kids, m, i + 1)

\* Map.set: a present key keeps its position and gets the new value
MapSet(kids, m, c) ==
  LET i == KeyPos(kids, m, 1)
  IN IF i = 0 THEN Append(kids, [m |-> m, c |-> c])
     ELSE [kids EXCEPT ![i] = [m |-> m, c |-> c]]

RECURSIVE Without(_, _)
Without(arr, m) ==
  IF arr = << >> THEN << >>
  ELSE IF Head(arr) = m THEN Without(Tail(arr), m)
  ELSE <<Head(arr)>> \o Without(Tail(arr), m)

\* ------------------------------------------------------------------- UCT
\* round(10^8 * sqrt(ln k)) for k = 1 .. Len(SqrtLn)
SqrtLn == <<
  0, 83255461, 104814707, 117741002, 126863624, 133856620, 139495883, 144202689,
  148230381, 151742713, 154851389, 157635867, 160154593, 162451757, 164561545, 166510922,
  168321518, 170010934, 171593676, 173081838, 174485599, 175813607, 177073268, 178270969,
  179412258, 180501982, 181544399, 182543269, 183501930, 184423355, 185310205, 186164871,
  186989507, 187786062, 188556306, 189301847, 190024154, 190724570, 191404327, 192064558,
  192706307, 193330536, 193938137, 194529937, 195106701, 195669144, 196217930, 196753679,
  197276970, 197788347, 198288316, 198777356, 199255914, 199724411, 200183246, 200632791,
  201073401, 201505410, 201929132, 202344868, 202752900, 203153498, 203546917, 203933398,
  204313173, 204686461, 205053472, 205414403, 205769446, 206118782, 206462584, 206801018,
  207134242, 207462408, 207785662, 208104141, 208417980, 208727306, 209032243, 209332908,
  209629415, 209921872, 210210385, 210495055, 210775977, 211053247, 211326953, 211597184,
  211864022, 212127548, 212387841, 212644976, 212899025, 213150059, 213398146, 213643352,
  213885740, 214125372, 214362307, 214596603, 214828316, 215057500, 215284207, 215508489,
  215730395, 215949973, 216167269, 216382329, 216595196, 216805912, 217014520, 217221060,
  217425569, 217628088, 217828651, 218027296, 218224058, 218418970, 218612065, 218803376,
  218992935, 219180771, 219366915, 219551396, 219734243, 219915482, 220095140, 220273245,
  220449822, 220624895, 220798490, 220970630, 221141338, 221310637, 221478549, 221645097,
  221810300, 221974181, 222136758, 222298053, 222458083, 222616869, 222774429, 222930781,
  223085942, 223239930, 223392761, 223544454, 223695022, 223844484, 223992853, 224140146,
  224286378, 224431562, 224575714, 224718847, 224860975, 225002112, 225142271, 225281464,
  225419706, 225557007, 225693381, 225828838, 225963392, 226097054, 226229835, 226361745,
  226492797, 226623001, 226752366, 226880904, 227008625, 227135539, 227261655, 227386983,
  227511532, 227635313, 227758333, 227880601, 228002128, 228122921, 228242988, 228362338,
  228480980, 228598921, 228716169, 228832733, 228948619, 229063835, 229178390, 229292289,
  229405540, 229518151, 229630128, 229741478, 229852207, 229962324, 230071833, 230180741,
  230289055 >>

\* round(10^8 / sqrt(m)) for m = 1 .. Len(InvSqrt)
InvSqrt == <<
  100000000, 70710678, 57735027, 50000000, 44721360, 40824829, 37796447, 35355339,
  33333333, 31622777, 30151134, 28867513, 27735010, 26726124, 25819889, 25000000,
  24253563, 23570226, 22941573, 22360680, 21821789, 21320072, 20851441, 20412415,
  20000000, 19611614, 19245009, 18898224, 18569534, 18257419, 17960530, 17677670,
  17407766, 17149859, 16903085, 16666667, 16439899, 16222142, 16012815, 15811388,
  15617376, 15430335, 15249857, 15075567, 14907120, 14744196, 14586499, 14433757,
  14285714, 14142136, 14002801, 13867505, 13736056, 13608276, 13483997, 13363062,
  13245324, 13130643, 13018891, 12909944, 12803688, 12700013, 12598816, 12500000,
  12403473, 12309149, 12216944, 12126781, 12038585, 11952286, 11867817, 11785113,
  11704115, 11624764, 11547005, 11470787, 11396058, 11322770, 11250879, 11180340,
  11111111, 11043153, 10976426, 10910895, 10846523, 10783277, 10721125, 10660036,
  10599979, 10540926, 10482848, 10425721, 10369517, 10314212, 10259784, 10206207,
  10153462, 10101525, 10050378, 10000000, 9950372, 9901475, 9853293, 9805807,
  9759001, 9712859, 9667365, 9622504, 9578263, 9534626, 9491580, 9449112,
  9407209, 9365858, 9325048, 9284767, 9245003, 9205746, 9166985, 9128709,
  9090909, 9053575, 9016696, 8980265, 8944272, 8908708, 8873565, 8838835,
  8804509, 8770580, 8737041, 8703883, 8671100, 8638684, 8606630, 8574929,
  8543577, 8512565, 8481889, 8451543, 8421519, 8391814, 8362420, 8333333,
  8304548, 8276059, 8247861, 8219949, 8192319, 8164966, 8137885, 8111071,
  8084521, 8058230, 8032193, 8006408, 7980869, 7955573, 7930516, 7905694,
  7881104, 7856742, 7832604, 7808688, 7784989, 7761505, 7738232, 7715167,
  7692308, 7669650, 7647191, 7624929, 7602859, 7580980, 7559289, 7537784,
  7516460, 7495317, 7474351, 7453560, 7432941, 7412493, 7392213, 7372098,
  7352146, 7332356, 7312724, 7293250, 7273930, 7254763, 7235746, 7216878,
  7198158, 7179582, 7161149, 7142857, 7124705, 7106691, 7088812, 7071068,
  7053456 >>

Scale == 100000000

E4 == 10000

\* floor(a * b / 10^8) for a < 2.4 * 10^8 and b <= 10^8, in 31-bit steps
MulScaled(a, b) ==
  LET a1 == a \div E4
      a0 == a % E4
      b1 == b \div E4
      b0 == b % E4
  IN a1 * b1 + (a1 * b0 + a0 * b1 + (a0 * b0) \div E4) \div E4

\* floor(10^8 * W / N) with W = W2 / 2
QScaled(W2, N) ==
  LET a == W2 * (E4 \div 2)
  IN (a \div N) * E4 + ((a % N) * E4) \div N

\* q + C * sqrt(ln(parentN + 1) / (child.N + 1)) in units of 10^-8, with
\* sqrt(ln(p) / m) taken as sqrt(ln p) * (1 / sqrt m)
\* q + C * u, u the square root in units of 10^-8
UctSum(q, u, C20) == q + (u \div 20) * C20 + ((u % 20) * C20) \div 20

\* uctValue with the visits of the parent alone under the square root
uctValueParentOnly(parentN, child, C20) ==
  UctSum(IF child.N > 0 THEN QScaled(child.W2, child.N) ELSE 0,
         MulScaled(SqrtLn[parentN + 1], InvSqrt[1]),
         C20)

uctValue(parentN, child, C20) ==
  UctSum(IF child.N > 0 THEN QScaled(child.W2, child.N) ELSE 0,
         MulScaled(SqrtLn[parentN + 1], InvSqrt[child.N + 1]),
         C20)

NegInf == -1

\* The fixed point values order two children as the doubles do when C = 0
\* or the children have the same visit count (then only the exact quotients
\* differ), and otherwise when the values differ by more than the rounding
\* error of the fixed point evaluation.
Margin(C20) == 4 + C20 \div 4

Reliable(v1, v2, c1, c2, C20) ==
  \/ C20 = 0
  \/ c1.N = c2.N
  \/ v1 - v2 >= Margin(C20)
  \/ v2 - v1 >= Margin(C20)

\* the for-loop over node.children.values(): picks the child of maximal
\* value, a tie with the best so far is decided by one draw; st.exact
\* records that every comparison made was a reliable one
RECURSIVE ChildLoop(_, _, _, _, _, _, _)

\* the next pass of the loop, x being what the pass before has left (a
\* pass always leaves a best child; the test makes the evaluation go pass
\* by pass)
ChildNext(x, parentN, kids, i, C20) ==
  IF x.best # NoNode
  THEN ChildLoop(x.st, parentN, kids, i, x.best, x.bestVal, C20)
  ELSE [st |-> x.st, node |-> x.best]

\* a tie: the draw rand() < 0.5 decides, took says how it came out
TakeOnDraw(st, c, val, best, bestVal, took) ==
  [st |-> [st EXCEPT !.rng = Advance(@)],
   best |-> IF took THEN c ELSE best,
   bestVal |-> IF took THEN val ELSE bestVal]

\* the if of the loop body with a test that always succeeds
TakeAlways(st, c, val, best, bestVal) == [st |-> st, best |-> c, bestVal |-> val]

\* the if of the loop body for the child c of value val
Take(st, c, val, best, bestVal) ==
  IF val > bestVal THEN [st |-> st, best |-> c, bestVal |-> val]
  ELSE IF val = bestVal
  THEN TakeOnDraw(st, c, val, best, bestVal, BelowHalf(RandWord(st.rng)))
  ELSE [st |-> st, best |-> best, bestVal |-> bestVal]

\* the loop body for the child c of value val
Consider(st, c, val, best, bestVal, C20) ==
  Take([st EXCEPT !.exact =
          @ /\ (best = NoNode
                  \/ Reliable(val, bestVal, st.heap[c], st.heap[best], C20))],
       c, val, best, bestVal)

ChildLoop(st, parentN, kids, i, best, bestVal, C20) ==
  IF i > Len(kids) THEN [st |-> st, node |-> best]
  ELSE ChildNext(Consider(st, kids[i].c, uctValue(parentN, st.heap[kids[i].c], C20),
                          best, bestVal, C20),
                 parentN, kids, i + 1, C20)

BestChild(st, node, C20) ==
  ChildLoop(st, st.heap[node].N, Kids(st, node), 1, NoNode, NegInf, C20)

\* the condition of the selection loop
Descends(st, node) ==
  /\ st.heap[node].terminal = NoOutcome
  /\ Len(st.heap[node].untried) = 0
  /\ Len(Kids(st, node)) > 0

RECURSIVE select(_, _, _)

\* node = best, and the while loop again
SelectFrom(r, C20) == select(r.st, r.node, C20)

select(st, node, C20) ==
  IF Descends(st, node)
  THEN SelectFrom(BestChild(st, node, C20), C20)
  ELSE [st |-> st, node |-> node]

\* the body of expansion, for a node that is not terminal and has untried moves
\* node.children.set(m, child), st holding the child as its newest node
LinkChild(st, n, m) ==
  [st |-> [st EXCEPT !.maps[n.children] = MapSet(@, m, NewId(st))],
   node |-> NewId(st)]

\* the expansion of node (whose fields are n) by the move m drawn
AddChild(st, node, n, m) ==
  LinkChild(makeNode([st EXCEPT !.rng = Advance(@),
                                !.heap[node].untried = Without(n.untried, m)],
                     [n.board EXCEPT ![m] = n.toMove], Other(n.toMove), node, m),
            n, m)

ExpandAt(st, node) ==
  AddChild(st, node, st.heap[node], randChoice(st.heap[node].untried, st.rng))

expand(st, node) ==
  IF st.heap[node].terminal # NoOutcome \/ Len(st.heap[node].untried) = 0
  THEN [st |-> st, node |-> node]
  ELSE ExpandAt(st, node)

\* twice the reward
rewardFrom(outcome, rootPlayer) ==
  IF outcome = "D" THEN 1 ELSE IF outcome = rootPlayer THEN 2 ELSE 0

\* a backprop step whose else branch (the loss) is missing
BumpNodeLossDropped(n, outcome, rootPlayer) ==
  [n EXCEPT !.N = @ + 1,
            !.W2 = @ + rewardFrom(outcome, rootPlayer),
            !.draws = IF outcome = "D" THEN @ + 1 ELSE @,
            !.wins = IF outcome # "D" /\ outcome = rootPlayer THEN @ + 1 ELSE @]

\* the body of the while loop of backprop, for the node cur
BumpNode(n, outcome, rootPlayer) ==
  [n EXCEPT !.N = @ + 1,
            !.W2 = @ + rewardFrom(outcome, rootPlayer),
            !.draws = IF outcome = "D" THEN @ + 1 ELSE @,
            !.wins = IF outcome # "D" /\ outcome = rootPlayer THEN @ + 1 ELSE @,
            !.losses = IF outcome # "D" /\ outcome # rootPlayer THEN @ + 1 ELSE @]

RECURSIVE backprop(_, _, _, _)
backprop(heap, node, outcome, rootPlayer) ==
  IF node = NoNode THEN heap
  ELSE backprop([heap EXCEPT ![node] = BumpNode(@, outcome, rootPlayer)],
                heap[node].parent, outcome, rootPlayer)

RECURSIVE RolloutLoop(_, _, _, _)

\* the body of the while loop without p = p === "X" ? "O" : "X"
RolloutMoveSameSide(b, p, trace, rng, m) ==
  RolloutLoop([b EXCEPT ![m] = p], p,
              Append(trace, [idx |-> m, player |-> p]), Advance(rng))

\* the body of the while loop for the move m drawn, and the loop again
RolloutMove(b, p, trace, rng, m) ==
  RolloutLoop([b EXCEPT ![m] = p], Other(p),
              Append(trace, [idx |-> m, player |-> p]), Advance(rng))

\* the while loop, winner being checkWinner(b)
RolloutFrom(b, p, trace, rng, winner) ==
  IF winner # NoOutcome
  THEN [outcome |-> winner, trace |-> trace, final |-> b, rng |-> rng]
  ELSE RolloutMove(b, p, trace, rng, randChoice(legalMoves(b), rng))

RolloutLoop(b, p, trace, rng) == RolloutFrom(b, p, trace, rng, checkWinner(b))

rolloutWithTrace(board, playerToMove, rng) ==
  RolloutLoop(board, playerToMove, << >>, rng)

\* one iteration without suspension points; board is the board of the
\* render the running handler belongs to
\* backprop(node, outcome, nextPlayer(board)) after the rollout r from e.node
Credit(e, r, rootPlayer) ==
  [e.st EXCEPT !.rng = r.rng,
               !.heap = backprop(@, e.node, r.outcome, rootPlayer)]

\* the rollout from the node e.node and the backpropagation
Simulate(e, rootPlayer) ==
  Credit(e,
         rolloutWithTrace(e.st.heap[e.node].board, e.st.heap[e.node].toMove, e.st.rng),
         rootPlayer)

\* if (node.terminal === null && node.untried.length > 0) node = expand(node)
Grow(s) ==
  IF s.st.heap[s.node].terminal = NoOutcome /\ Len(s.st.heap[s.node].untried) > 0
  THEN expand(s.st, s.node)
  ELSE s

oneIterationFast(st, workRoot, C20, board) ==
  Simulate(Grow(select(st, workRoot, C20)), nextPlayer(board))

RECURSIVE FastIters(_, _, _, _, _)
\* n iterations one after the other (the n passes are split in halves to
\* keep the evaluation shallow; the test evaluates the first half first)
FastIters(st, workRoot, C20, board, n) ==
  IF n = 0 THEN st
  ELSE IF n = 1 THEN oneIterationFast(st, workRoot, C20, board)
  ELSE LET st1 == FastIters(st, workRoot, C20, board, n \div 2)
       IN IF Len(st1.heap) > 0
          THEN FastIters(st1, workRoot, C20, board, n - n \div 2)
          ELSE st1

\* the loop of bestChildMove with ch.N >= bestN as its test
RECURSIVE BestMoveLoopLastWins(_, _, _, _, _)
BestMoveLoopLastWins(st, kids, i, best, bestN) ==
  IF i > Len(kids) THEN best
  ELSE IF st.heap[kids[i].c].N >= bestN
  THEN BestMoveLoopLastWins(st, kids, i + 1, kids[i].m, st.heap[kids[i].c].N)
  ELSE BestMoveLoopLastWins(st, kids, i + 1, best, bestN)

\* bestChildMove for the node shown as root: the first child, in the order of
\* the Map, with the largest N
RECURSIVE BestMoveLoop(_, _, _, _, _)
BestMoveLoop(st, kids, i, best, bestN) ==
  IF i > Len(kids) THEN best
  ELSE IF st.heap[kids[i].c].N > bestN
  THEN BestMoveLoop(st, kids, i + 1, kids[i].m, st.heap[kids[i].c].N)
  ELSE BestMoveLoop(st, kids, i + 1, best, bestN)

bestChildMove(st, node) ==
  IF Len(Kids(st, node)) = 0 THEN NoMove
  ELSE BestMoveLoop(st, Kids(st, node), 1, NoMove, -1)

PRESETS ==
  [empty |-> EmptyBoard,
   midgame1 |-> MkBoard(<<"X", "O", "_", "_", "X", "_", "O", "_", "_">>),
   endgame1 |-> MkBoard(<<"X", "O", "X", "O", "X", "_", "_", "O", "_">>),
   mustblock_pure |-> MkBoard(<<"O", "O", "_", "_", "X", "_", "_", "X", "_">>)]

\* -------------------------------------------------------------- controller
VARIABLES
  presetKey, board, C, itersPerRun, seed, freshEachRun, animateEvery,
  root, isRunning, paused, totalIters,
  phase, selRootMove, expRootMove, simOverlay,
  rng, token, heap, maps,
  loops,          \* the async calls in flight, in the order their timers fire
  hist,           \* one record per run started (history, not program state)
  exact,          \* every UCT comparison made so far was a reliable one
  lastStart,      \* the run requested by the event handled last, 0 if it
                  \* requested none, OnFinishedGame if it requested one on a
                  \* finished game (history)
  fired,          \* per run, the parity of its timers that have fired
                  \* (history, kept by TimerFired alone)
  passed,         \* per run, the parity of the time tests of its sleeps
                  \* that found the time elapsed (history, as fired)
  refused,        \* the cell of the click on the board handled last, when
                  \* placeMark refused it (history, kept by placeMarkNoted
                  \* alone)
  starts, boardEvents,
  call,           \* the call of uct (uctValue) made last: its arguments and
                  \* the value it returned
  drive,          \* the state of the component ExerciseDriveUCT: C (in
                  \* twentieths), parentN, kids, ptrs, feedback, disabledWrong
  flat            \* the state of the component MonteCarloTicTacToePart1:
                  \* presetKey, board, simsPerMove, isRunning, results;
                  \* pending: the call of run that waits for its timer;
                  \* ranWith: the simsPerMove of the call that set the
                  \* results (history)

\* the variables of the other pages of the app
pages == <<call, drive, flat>>

\* the variables of the component MonteCarloTicTacToePart2 and its history
controller ==
  <<presetKey, board, C, itersPerRun, seed, freshEachRun, animateEvery,
    root, isRunning, paused, totalIters,
    phase, selRootMove, expRootMove, simOverlay,
    rng, token, heap, maps, loops, hist, exact, lastStart,
    fired, passed, refused, starts, boardEvents>>

vars == <<presetKey, board, C, itersPerRun, seed, freshEachRun, animateEvery,
          root, isRunning, paused, totalIters,
          phase, selRootMove, expRootMove, simOverlay,
          rng, token, heap, maps, loops, hist, exact, lastStart,
          fired, passed, refused, starts, boardEvents, call, drive, flat>>

PAUSE == 450
SIM_STEP_MS == 120
pauseStepMs == 60

\* the state a handler or a continuation reads and writes
World ==
  [heap |-> heap, maps |-> maps, rng |-> rng, exact |-> exact, token |-> token,
   root |-> root, isRunning |-> isRunning, paused |-> paused,
   totalIters |-> totalIters, phase |-> phase, selRootMove |-> selRootMove,
   expRootMove |-> expRootMove, simOverlay |-> simOverlay, hist |-> hist]

Commit(w) ==
  /\ heap' = w.heap
  /\ maps' = w.maps
  /\ rng' = w.rng
  /\ exact' = w.exact
  /\ token' = w.token
  /\ root' = w.root
  /\ isRunning' = w.isRunning
  /\ paused' = w.paused
  /\ totalIters' = w.totalIters
  /\ phase' = w.phase
  /\ selRootMove' = w.selRootMove
  /\ expRootMove' = w.expRootMove
  /\ simOverlay' = w.simOverlay
  /\ hist' = w.hist

\* a terminal test that never finds the game finished
terminalUnchecked == NoOutcome

terminal == checkWinner(board)

currentPlayer == nextPlayer(board)

clearVisuals(w) ==
  [w EXCEPT !.phase = "idle", !.selRootMove = NoMove, !.expRootMove = NoMove,
            !.simOverlay = EmptyBoard]

\* setRoot(makeNode(b, nextPlayer(b))); setTotalIters(0); clearVisuals()
resetTreeToBoard(w, b) ==
  LET w1 == makeNode(w, b, nextPlayer(b), NoNode, NoMove)
  IN clearVisuals([w1 EXCEPT !.root = NewId(w1), !.totalIters = 0])

startRun(w) ==
  [w EXCEPT !.token = [paused |-> FALSE, cancelled |-> FALSE],
            !.paused = FALSE, !.isRunning = TRUE]

endRun(w) == clearVisuals([w EXCEPT !.isRunning = FALSE, !.paused = FALSE])

reseedRng(w, s) == [w EXCEPT !.rng = createMulberry32(s)]

\* setRoot({ ...node })
PublishCopy(w, node) ==
  LET w1 == ShallowCopy(w, node) IN [w1 EXCEPT !.root = NewId(w1)]

Infinity == 0

ParseInt(str) == CASE str = "1" -> 1 [] str = "5" -> 5 [] str = "10" -> 10

\* animateEveryN of stepManyAnimated
AnimateEveryN(a) ==
  IF a = "last" THEN Infinity
  ELSE IF ParseInt(a) < 1 THEN 1 ELSE ParseInt(a)

\* shouldAnimate without i === itersPerRun
shouldAnimateNotLast(i, iters, everyN) ==
  i = 1 \/ (everyN # Infinity /\ i % everyN = 0)

\* i === 1 || i === itersPerRun || i % animateEveryN === 0
shouldAnimate(i, iters, everyN) ==
  i = 1 \/ i = iters \/ (everyN # Infinity /\ i % everyN = 0)

\* the loop of waitIfPaused would set a timer
MustWait(w) == w.token.paused /\ ~w.token.cancelled

\* history of run id: a backpropagation from workRoot's tree was applied
\* with rootPlayer as the side rewarded; before is the heap before it
NoteBackprop(w, id, before, workRoot, rootPlayer) ==
  [w EXCEPT !.hist[id].bp = @ + 1,
            !.hist[id].rootInc = @ + (w.heap[workRoot].N - before[workRoot].N),
            !.hist[id].sideOk = @ /\ rootPlayer = w.heap[workRoot].toMove]

NoteExpansion(w, id) == [w EXCEPT !.hist[id].ex = @ + 1]

\* what a tree shows at its root: the visits of the root and of the child
\* under each move (-1: no child), and the move bestChildMove picks
Visits(st, node) ==
  LET kids == Kids(st, node)
  IN [N |-> st.heap[node].N,
      byMove |-> [m \in Cells |->
                    LET i == KeyPos(kids, m, 1)
                    IN IF i = 0 THEN -1 ELSE st.heap[kids[i].c].N],
      best |-> bestChildMove(st, node)]

\* history of run id: its call returns, having counted done iterations
NoteReturn(w, id, done, workRoot) ==
  [w EXCEPT !.hist[id].added = done, !.hist[id].final = Visits(w, workRoot)]

\* ------------------------------------------------- the async run functions
\* c = [w |-> world, r |-> the call's closure and locals].  r.pc is the
\* program point the call is at; each operator below is the code from one
\* program point to the next.  At the points in Waiting the call has set a
\* timer (setTimeout(r, pauseStepMs)) and is suspended until it fires; at
\* "done" it has returned.
Waiting == {"selWait", "simWait", "loopWait", "sleepPaused", "sleep"}

Goto(c, pc) == [c EXCEPT !.r.pc = pc]

Yield(c, pc, at) == [c EXCEPT !.r.pc = pc, !.r.at = at]

\* return { root: workRoot, ok } of oneIterationViz
Return(c, ok) == [c EXCEPT !.r.pc = "return", !.r.ok = ok]

\* the locals of oneIterationViz, before the call and after its return
NoLocals(r) ==
  [r EXCEPT !.node = NoNode, !.chosen = NoMove, !.outcome = NoOutcome,
            !.trace = << >>, !.ti = 0, !.overlay = EmptyBoard, !.ok = FALSE]

Ms(at) == IF at = "simStep" THEN SIM_STEP_MS ELSE PAUSE

\* pauseAwareSleep from the top of its while loop, the time not yet elapsed
SleepBody(c) ==
  IF c.w.token.cancelled THEN Return(c, FALSE)
  ELSE IF MustWait(c.w) THEN Goto(c, "sleepPaused")
  ELSE Goto(c, "sleep")

\* await pauseAwareSleep(ms) at the place at of oneIterationViz
pauseAwareSleep(c, at) ==
  IF 0 < Ms(at) THEN Yield(c, "sleepBody", at)
  ELSE IF c.w.token.cancelled THEN Return(c, FALSE)
  ELSE Yield(c, "slept", at)

\* node = best and the update of chosenRootMove, b being the child picked
Descend(c, b) ==
  [c EXCEPT !.w = b.st,
            !.r.node = b.node,
            !.r.chosen = IF /\ b.st.heap[b.node].parent = c.r.workRoot
                            /\ b.st.heap[b.node].moveFromParent # NoMove
                         THEN b.st.heap[b.node].moveFromParent ELSE @,
            !.r.pc = "sel"]

\* one pass of the selection loop after waitIfPaused has returned true
SelBody(c) == Descend(c, BestChild(c.w, c.r.node, c.r.cC))

\* the selection loop from its condition
SelLoop(c) ==
  IF Descends(c.w, c.r.node)
  THEN IF MustWait(c.w) THEN Yield(c, "selWait", "sel")
       ELSE IF c.w.token.cancelled THEN Return(c, FALSE)
       ELSE Goto(c, "selBody")
  ELSE pauseAwareSleep(IF c.r.chosen # NoMove
                       THEN [c EXCEPT !.w.selRootMove = c.r.chosen]
                       ELSE c, "sel")

\* oneIterationViz up to its selection loop
oneIterationViz(c) ==
  [c EXCEPT !.w.selRootMove = NoMove,
            !.w.expRootMove = NoMove,
            !.w.simOverlay = EmptyBoard,
            !.w.phase = "selection",
            !.r.node = c.r.workRoot,
            !.r.chosen = NoMove,
            !.r.pc = "sel"]

\* node = child and setExpRootMove, e being the expansion made
Expanded(c, e) ==
  [c EXCEPT !.w = [NoteExpansion(e.st, c.r.id) EXCEPT
                     !.phase = "expansion",
                     !.expRootMove =
                        IF /\ e.st.heap[e.node].parent = c.r.workRoot
                           /\ e.st.heap[e.node].moveFromParent # NoMove
                        THEN e.st.heap[e.node].moveFromParent ELSE @],
            !.r.node = e.node]

VizExpansion(c) ==
  IF /\ c.w.heap[c.r.node].terminal = NoOutcome
     /\ Len(c.w.heap[c.r.node].untried) > 0
  THEN Expanded(c, ExpandAt(c.w, c.r.node))
  ELSE [c EXCEPT !.w.phase = "expansion"]

\* const { outcome, trace } = ro; const overlay = [null, ...]
Simulated(c, ro) ==
  [c EXCEPT !.w.phase = "simulation", !.w.rng = ro.rng,
            !.r.outcome = ro.outcome, !.r.trace = ro.trace,
            !.r.overlay = EmptyBoard, !.r.ti = 1, !.r.pc = "simLoop"]

VizSimulation(c) ==
  Simulated(c, rolloutWithTrace(c.w.heap[c.r.node].board,
                                c.w.heap[c.r.node].toMove, c.w.rng))

\* overlay[step.idx] = step.player; setSimOverlay(overlay.slice()); sleep
Overlaid(c, ov) ==
  pauseAwareSleep([c EXCEPT !.r.overlay = ov, !.w.simOverlay = ov], "simStep")

\* one step of the trace after waitIfPaused has returned true
SimStep(c) ==
  IF c.w.token.cancelled THEN Return(c, FALSE)
  ELSE IF c.r.cBoard[c.r.trace[c.r.ti].idx] = NoCell
  THEN Overlaid(c, [c.r.overlay EXCEPT ![c.r.trace[c.r.ti].idx] =
                                          c.r.trace[c.r.ti].player])
  ELSE [c EXCEPT !.r.ti = @ + 1, !.r.pc = "simLoop"]

\* the loop over the trace from its condition
SimLoop(c) ==
  IF c.r.ti <= Len(c.r.trace)
  THEN IF MustWait(c.w) THEN Yield(c, "simWait", "sim")
       ELSE IF c.w.token.cancelled THEN Return(c, FALSE)
       ELSE Goto(c, "simStep")
  ELSE pauseAwareSleep(c, "sim")

\* setRoot({ ...workRoot }) after the backpropagation that made w of c.w
Backpropagated(c, w, rootPlayer) ==
  [c EXCEPT !.w = PublishCopy(NoteBackprop(w, c.r.id, c.w.heap, c.r.workRoot,
                                           rootPlayer),
                              c.r.workRoot)]

VizBackprop(c) ==
  Backpropagated(c,
                 [c.w EXCEPT !.phase = "backprop",
                             !.heap = backprop(@, c.r.node, c.r.outcome,
                                               nextPlayer(c.r.cBoard))],
                 nextPlayer(c.r.cBoard))

\* the code that follows a pauseAwareSleep which returned true
AfterSleep(c) ==
  CASE c.r.at = "sel" -> pauseAwareSleep(VizExpansion(c), "exp")
    [] c.r.at = "exp" -> VizSimulation(c)
    [] c.r.at = "simStep" -> [c EXCEPT !.r.ti = @ + 1, !.r.pc = "simLoop"]
    [] c.r.at = "sim" -> pauseAwareSleep(VizBackprop(c), "bp")
    [] c.r.at = "bp" -> Return([c EXCEPT !.w = clearVisuals(@)], TRUE)

\* finally { endRun() } and the return of the run's call
Finish(c, w) ==
  [c EXCEPT !.w = endRun(NoteReturn(w, c.r.id, c.r.done, c.r.workRoot)), !.r.pc = "done"]

\* setTotalIters((t) => t + done) and the end of the call, w holding the
\* root the run publishes last
Count(c, w) == Finish(c, [w EXCEPT !.totalIters = @ + c.r.done])

\* the end of stepManyAnimated: publish, count, endRun
ManyEnd(c) ==
  Count(c, IF c.r.workRoot = c.r.cRoot
           THEN PublishCopy(c.w, c.r.cRoot)
           ELSE [c.w EXCEPT !.root = c.r.workRoot])

\* the end of runBatch / runBatchFresh
BatchEnd(c) ==
  Count(c, IF c.r.kind = "runBatchFresh"
           THEN [c.w EXCEPT !.root = c.r.workRoot]
           ELSE PublishCopy(c.w, c.r.cRoot))

\* what follows the for loop of a run
LoopEnd(c) == IF c.r.kind = "stepMany" THEN ManyEnd(c) ELSE BatchEnd(c)

\* done++ after oneIterationFast has made w1 of c.w
Noted(c, w1) ==
  [NoteBackprop(w1, c.r.id, c.w.heap, c.r.workRoot, nextPlayer(c.r.cBoard))
     EXCEPT !.hist[c.r.id].ex = @ + (Len(w1.heap) - Len(c.w.heap))]

\* if (i % 20 === 0 || i === itersPerRun) setRoot({ ...workRoot })
ManyFast(c, w) ==
  IF c.r.kind = "stepMany" /\ (c.r.i % 20 = 0 \/ c.r.i = c.r.iters)
  THEN PublishCopy(w, c.r.workRoot)
  ELSE w

\* a fast iteration of a for loop, and the loop's increment
FastBody(c) ==
  [c EXCEPT !.w = ManyFast(c, Noted(c, oneIterationFast(c.w, c.r.workRoot, c.r.cC,
                                                        c.r.cBoard))),
            !.r.done = @ + 1, !.r.i = @ + 1, !.r.pc = "loop"]

\* the loop body of stepManyAnimated after the cancel check and waitIfPaused
ManyBody(c) ==
  IF shouldAnimate(c.r.i, c.r.iters, c.r.everyN)
  THEN [c EXCEPT !.r.pc = "viz", !.w.hist[c.r.id].shown = @ \cup {c.r.i}]
  ELSE [c EXCEPT !.r.pc = "fast", !.w.hist[c.r.id].quick = @ \cup {c.r.i}]

\* the loop body of a run after the cancel check and waitIfPaused
LoopBody(c) == IF c.r.kind = "stepMany" THEN ManyBody(c) ELSE Goto(c, "fast")

\* one pass of the for loop of a run, from its condition (r.i counts from 1
\* in the batches too)
forLoop(c) ==
  IF c.r.i <= c.r.iters
  THEN IF c.w.token.cancelled THEN Goto(c, "end")
       ELSE IF MustWait(c.w) THEN Yield(c, "loopWait", "loop")
       ELSE LoopBody(c)
  ELSE Goto(c, "end")

\* the return of oneIterationViz to its caller, c without the call's locals
AfterViz(c, ok) ==
  IF c.r.kind = "stepOne"
  THEN Finish([c EXCEPT !.r.done = IF ok THEN 1 ELSE 0],
              [c.w EXCEPT !.totalIters = @ + (IF ok THEN 1 ELSE 0)])
  ELSE IF ok
  THEN Yield([c EXCEPT !.r.done = @ + 1, !.r.i = @ + 1], "loop", "loop")
  ELSE Goto(c, "end")

VizReturn(c) == AfterViz([c EXCEPT !.r = NoLocals(@)], c.r.ok)

\* the code of the call from the program point it is at to the next one
Step(c) ==
  CASE c.r.pc = "loop" -> forLoop(c)
    [] c.r.pc = "fast" -> FastBody(c)
    [] c.r.pc = "end" -> LoopEnd(c)
    [] c.r.pc = "viz" -> oneIterationViz(c)
    [] c.r.pc = "sel" -> SelLoop(c)
    [] c.r.pc = "selBody" -> SelBody(c)
    [] c.r.pc = "sleepBody" -> SleepBody(c)
    [] c.r.pc = "slept" -> AfterSleep(c)
    [] c.r.pc = "simLoop" -> SimLoop(c)
    [] c.r.pc = "simStep" -> SimStep(c)
    [] c.r.pc = "return" -> VizReturn(c)

\* the call runs up to its next timer or its end
RECURSIVE Run(_)
Run(c) == IF c.r.pc \in Waiting \cup {"done"} THEN c ELSE Run(Step(c))

\* the timer the call waits for fires; elapsed: the time test of
\* pauseAwareSleep (performance.now() - start < ms) now fails
Wake(c, elapsed) ==
  CASE c.r.pc = "selWait" ->
         IF MustWait(c.w) THEN c
         ELSE IF c.w.token.cancelled THEN Return(c, FALSE)
         ELSE Goto(c, "selBody")
    [] c.r.pc = "simWait" ->
         IF MustWait(c.w) THEN c
         ELSE IF c.w.token.cancelled THEN Return(c, FALSE)
         ELSE Goto(c, "simStep")
    [] c.r.pc = "loopWait" ->
         IF MustWait(c.w) THEN c
         ELSE IF c.w.token.cancelled THEN Goto(c, "end")
         ELSE LoopBody(c)
    [] c.r.pc = "sleepPaused" ->
         IF MustWait(c.w) THEN c
         ELSE Goto(c, "sleep")
    [] c.r.pc = "sleep" ->
         IF ~elapsed THEN Goto(c, "sleepBody")
         ELSE IF c.w.token.cancelled THEN Return(c, FALSE)
         ELSE Goto(c, "slept")

Resume(c, elapsed) == Run(Wake(c, elapsed))

\* ----------------------------------------------------------------- actions
\* the values of the form controls that are explored
PresetChoices == {"empty", "midgame1", "endgame1", "mustblock_pure"}
CChoices == {20}
SeedChoices == {42}
IterChoices == {10}
AnimateChoices == {"10"}

\* The component as constructed (useState initializers, the refs), after the
\* form controls have been set: a preset chosen (handlePreset writes
\* presetKey and board and makes a single-node root of that board), the
\* iterations per run, the "fresh run" box.  The controls are not touched
\* again afterwards.
Constructed(presets, cadences) ==
  /\ presetKey \in presets
  /\ board = PRESETS[presetKey]
  /\ C \in CChoices
  /\ itersPerRun \in IterChoices
  /\ seed \in SeedChoices
  /\ freshEachRun \in BOOLEAN
  /\ animateEvery \in cadences
  /\ heap = <<Node(board, nextPlayer(board), NoNode, NoMove, 1)>>
  /\ maps = << << >> >>
  /\ root = 1
  /\ isRunning = FALSE
  /\ paused = FALSE
  /\ totalIters = 0
  /\ phase = "idle"
  /\ selRootMove = NoMove
  /\ expRootMove = NoMove
  /\ simOverlay = EmptyBoard
  /\ rng = createMulberry32(seed)
  /\ token = [paused |-> FALSE, cancelled |-> FALSE]
  /\ loops = << >>
  /\ hist = << >>
  /\ exact = TRUE
  /\ lastStart = 0
  /\ fired = [id \in 1..MaxStarts |-> 0]
  /\ passed = [id \in 1..MaxStarts |-> 0]
  /\ refused = NoMove
  /\ starts = 0
  /\ boardEvents = 0

\* no call of uct has been made
NoCall == << >>

\* the children of the exercise
Ids == <<"A", "B", "C">>

\* useState(...) of ExerciseDriveUCT
DriveConstructed ==
  [C |-> 20, parentN |-> 0,
   kids |-> [id \in {"A", "B", "C"} |-> [N |-> 0, W |-> 0]],
   ptrs |-> [id \in {"A", "B", "C"} |-> 0],
   feedback |-> "null", disabledWrong |-> {}]

\* results === null
NoResults == << >>

\* no call of run waits for its timer
NoRun == << >>

\* useState(...) of MonteCarloTicTacToePart1, and simsPerMove as it is set
FlatConstructed(sims) ==
  [presetKey |-> "midgame1", board |-> PRESETS["midgame1"], simsPerMove |-> sims,
   isRunning |-> FALSE, results |-> NoResults, pending |-> NoRun, ranWith |-> 0]

\* the other pages as they are constructed
PagesConstructed ==
  call = NoCall /\ drive = DriveConstructed /\ flat = FlatConstructed(10)

Init == Constructed(PresetChoices, AnimateChoices) /\ PagesConstructed

settings == <<C, itersPerRun, seed, freshEachRun, animateEvery>>

\* the closure and the locals of a call that starts now
NewLoop(kind, pc, workRoot, iters, everyN) ==
  [id |-> starts + 1, kind |-> kind, pc |-> pc, at |-> "loop",
   cRoot |-> root, cBoard |-> board, cC |-> C, iters |-> iters, everyN |-> everyN,
   workRoot |-> workRoot, i |-> 1, done |-> 0,
   node |-> NoNode, chosen |-> NoMove, outcome |-> NoOutcome,
   trace |-> << >>, ti |-> 0, overlay |-> EmptyBoard, ok |-> FALSE]

\* the tree a run starts from holds one node, without visits, for the board
Pristine(w, fresh) ==
  \/ fresh
  \/ /\ w.heap[w.root] = Node(board, nextPlayer(board), NoNode, NoMove,
                              w.heap[w.root].children)
     /\ Kids(w, w.root) = << >>

NoVisits == [N |-> 0, byMove |-> [m \in Cells |-> -1], best |-> NoMove]

\* history: a run of n iterations starts (startedOn: the board, pristine:
\* from a single-node tree; cancelReq: the run was cancelled; cancelClick:
\* Cancel was clicked while the run was in flight, or as the first event
\* handled after the task that requested it; bp, ex: backpropagations
\* and expansions applied; rootInc: the visits they added to the run's
\* root; sideOk: the rewards were for the side to move at that root;
\* shown, quick: the passes of the loop of stepManyAnimated that ran
\* oneIterationViz and oneIterationFast;
\* added: the iterations the run counted, final: its tree at its return)
NoteStart(w, kind, n, fresh) ==
  [w EXCEPT !.hist = Append(@, [kind |-> kind, n |-> n, fresh |-> fresh,
                                startedOn |-> board,
                                pristine |-> Pristine(w, fresh),
                                cancelReq |-> FALSE, cancelClick |-> FALSE,
                                bp |-> 0, ex |-> 0, rootInc |-> 0,
                                sideOk |-> TRUE, added |-> -1,
                                shown |-> {}, quick |-> {},
                                final |-> NoVisits])]

\* startRun(); reseedRng(seed)
Started(kind, n, fresh) == reseedRng(startRun(NoteStart(World, kind, n, fresh)), seed)

CanStart == starts < MaxStarts /\ Len(loops) < MaxLoops

\* animated runs are followed on boards with few empty cells
CanAnimate == Len(legalMoves(board)) <= MaxAnimatedCells

\* the handler's call runs up to its first timer or its end
Launch(c) ==
  /\ Commit(c.w)
  /\ loops' = IF c.r.pc = "done" THEN loops ELSE Append(loops, c.r)
  /\ starts' = starts + 1
  /\ lastStart' = starts + 1
  /\ UNCHANGED <<presetKey, board, settings, pages, fired, passed, refused, boardEvents>>

\* makeNode(board.slice(), nextPlayer(board))
FreshRoot(w) == makeNode(w, board, nextPlayer(board), NoNode, NoMove)

\* the for loop of a run starts; fresh: w holds the run's own root as its
\* newest node
Begin(w, kind, fresh, everyN) ==
  Launch(Run([w |-> w,
              r |-> NewLoop(kind, "loop", IF fresh THEN NewId(w) ELSE root,
                            itersPerRun, everyN)]))

OnFinishedGame == -1

\* if (terminal || isRunning) return
Refuse ==
  IF terminal # NoOutcome
  THEN /\ lastStart' = OnFinishedGame
       /\ UNCHANGED <<presetKey, board, settings, pages, root, isRunning, paused, totalIters,
                      phase, selRootMove, expRootMove, simOverlay, rng, token, heap,
                      maps, loops, hist, exact, fired, passed, refused, starts, boardEvents>>
  ELSE UNCHANGED vars

stepOne ==
  IF terminal # NoOutcome \/ isRunning THEN Refuse
  ELSE /\ CanStart
       /\ CanAnimate
       /\ Launch(Run([w |-> Started("stepOne", 1, FALSE),
                      r |-> NewLoop("stepOne", "viz", root, 1, Infinity)]))

runBatch ==
  /\ ~freshEachRun
  /\ IF terminal # NoOutcome \/ isRunning THEN Refuse
     ELSE /\ CanStart
          /\ Begin(Started("runBatch", itersPerRun, FALSE), "runBatch", FALSE, Infinity)

runBatchFresh ==
  /\ freshEachRun
  /\ IF terminal # NoOutcome \/ isRunning THEN Refuse
     ELSE /\ CanStart
          /\ Begin(FreshRoot(Started("runBatchFresh", itersPerRun, TRUE)),
                   "runBatchFresh", TRUE, Infinity)

stepManyAnimated ==
  IF terminal # NoOutcome \/ isRunning THEN Refuse
  ELSE /\ CanStart
       /\ CanAnimate
       /\ Begin(IF freshEachRun
                THEN FreshRoot(Started("stepMany", itersPerRun, TRUE))
                ELSE Started("stepMany", itersPerRun, FALSE),
                "stepMany", freshEachRun, AnimateEveryN(animateEvery))

\* the call that was resumed has set its next timer, or has returned
Requeue(c) ==
  /\ Commit(c.w)
  /\ loops' = IF c.r.pc = "done" THEN Tail(loops) ELSE Append(Tail(loops), c.r)

\* the timer of the call at the head of the timer queue fires (all timers
\* have the same delay pauseStepMs, so they fire in the order they were set)
Tick(elapsed) ==
  /\ loops # << >>
  /\ Requeue(Resume([w |-> World, r |-> Head(loops)], elapsed))
  /\ lastStart' = 0
  /\ UNCHANGED <<presetKey, board, settings, pages, starts, boardEvents>>

\* elapsed: the time of the sleep that is under way has passed
Timer == (\E elapsed \in BOOLEAN : Tick(elapsed)) /\ UNCHANGED <<fired, passed, refused>>

\* Timer, with the history of the firings kept
TimerFired ==
  \E elapsed \in BOOLEAN :
    /\ Tick(elapsed)
    /\ fired' = [fired EXCEPT ![Head(loops).id] = 1 - @]
    /\ passed' = IF Head(loops).pc = "sleep" /\ elapsed
                 THEN [passed EXCEPT ![Head(loops).id] = 1 - @]
                 ELSE passed
    /\ UNCHANGED refused

InFlight == {loops[k].id : k \in 1..Len(loops)}

\* the call of run id has a timer set, and it fires
Fires(id) == id \in InFlight /\ fired' = [fired EXCEPT ![id] = 1 - @]

\* the call of run id is in the last setTimeout of the while loop of
\* pauseAwareSleep, and the time test that follows finds the time elapsed
Passes(id) ==
  /\ \E k \in 1..Len(loops) : loops[k].id = id /\ loops[k].pc = "sleep"
  /\ passed' = [passed EXCEPT ![id] = 1 - @]

MarkCancel(h) ==
  [id \in 1..Len(h) |-> IF id \in InFlight THEN [h[id] EXCEPT !.cancelReq = TRUE] ELSE h[id]]

onPauseResume ==
  IF ~isRunning THEN UNCHANGED vars
  ELSE /\ token' = [token EXCEPT !.paused = ~paused]
       /\ paused' = ~paused
       /\ lastStart' = 0
       /\ UNCHANGED <<presetKey, board, settings, pages, root, isRunning, totalIters, phase,
                      selRootMove, expRootMove, simOverlay, rng, heap, maps, loops,
                      hist, exact, fired, passed, refused, starts, boardEvents>>

\* onCancel without its test of isRunning
onCancelUnguarded ==
  /\ Commit([clearVisuals(World) EXCEPT
                !.token = [paused |-> FALSE, cancelled |-> TRUE],
                !.paused = FALSE,
                !.isRunning = FALSE,
                !.hist = MarkCancel(hist)])
  /\ lastStart' = 0
  /\ UNCHANGED <<presetKey, board, settings, pages, loops, fired, passed, refused, starts, boardEvents>>

onCancel ==
  IF ~isRunning
  THEN /\ hist' = IF lastStart > 0 THEN [hist EXCEPT ![lastStart].cancelClick = TRUE] ELSE hist
       /\ lastStart' = 0
       /\ UNCHANGED <<presetKey, board, settings, pages, root, isRunning, paused, totalIters,
                      phase, selRootMove, expRootMove, simOverlay, rng, token, heap,
                      maps, loops, exact, fired, passed, refused, starts, boardEvents>>
  ELSE /\ Commit([clearVisuals(World) EXCEPT
                     !.token = [paused |-> FALSE, cancelled |-> TRUE],
                     !.paused = FALSE,
                     !.isRunning = FALSE,
                     !.hist = [MarkCancel(hist) EXCEPT ![starts].cancelClick = TRUE]])
       /\ lastStart' = 0
       /\ UNCHANGED <<presetKey, board, settings, pages, loops, fired, passed, refused, starts, boardEvents>>

\* setBoard(b); resetTreeToBoard(b)
BoardEvent(w, b) ==
  /\ boardEvents < MaxBoardEvents
  /\ Commit(resetTreeToBoard(w, b))
  /\ board' = b
  /\ boardEvents' = boardEvents + 1
  /\ lastStart' = 0
  /\ UNCHANGED <<presetKey, settings, pages, loops, fired, passed, starts>>

\* placeMark without its test of terminal and board[i]
MarkUnchecked(i) == BoardEvent(World, [board EXCEPT ![i] = currentPlayer])

Mark(i) ==
  IF terminal # NoOutcome \/ board[i] # NoCell
  THEN UNCHANGED <<presetKey, board, settings, pages, root, isRunning, paused, totalIters,
                   phase, selRootMove, expRootMove, simOverlay, rng, token, heap,
                   maps, loops, hist, exact, lastStart, fired, passed, starts,
                   boardEvents>>
  ELSE BoardEvent(World, [board EXCEPT ![i] = currentPlayer])

placeMark(i) == Mark(i) /\ UNCHANGED refused

\* placeMark, with the history of the clicks it refused kept
placeMarkNoted(i) ==
  /\ Mark(i)
  /\ refused' = IF terminal # NoOutcome \/ board[i] # NoCell THEN i ELSE NoMove

resetPosition ==
  LET w == IF isRunning
           THEN [World EXCEPT !.token = [paused |-> FALSE, cancelled |-> TRUE],
                              !.paused = FALSE,
                              !.isRunning = FALSE,
                              !.hist = MarkCancel(hist)]
           ELSE World
  IN BoardEvent(w, PRESETS[presetKey]) /\ UNCHANGED refused

Next ==
  \/ stepOne
  \/ runBatch
  \/ runBatchFresh
  \/ stepManyAnimated
  \/ Timer
  \/ onPauseResume
  \/ onCancel
  \/ resetPosition
  \/ \E i \in Cells : placeMark(i)

Spec == Init /\ [][Next]_vars

\* the controller with single steps and batches as the runs
NextStep ==
  \/ stepOne
  \/ runBatch
  \/ runBatchFresh
  \/ Timer
  \/ onPauseResume
  \/ onCancel
  \/ resetPosition
  \/ \E i \in Cells : placeMark(i)

SpecStep == Init /\ [][NextStep]_vars

\* the controller with animated multi-iteration runs, the board left alone
NextMany ==
  \/ stepManyAnimated
  \/ Timer
  \/ onPauseResume
  \/ onCancel

SpecMany == Init /\ [][NextMany]_vars

\* the controller with the four kinds of run, marks and Reset, without
\* clicks on Pause and Cancel
NextPlay ==
  \/ stepOne
  \/ runBatch
  \/ runBatchFresh
  \/ stepManyAnimated
  \/ Timer
  \/ resetPosition
  \/ \E i \in Cells : placeMark(i)

SpecPlay == Init /\ [][NextPlay]_vars

NextBoard ==
  \/ stepOne
  \/ runBatch
  \/ runBatchFresh
  \/ Timer
  \/ resetPosition
  \/ \E i \in Cells : placeMarkNoted(i)

\* single steps and batches, with clicks on the board and Reset
SpecBoard == Init /\ [][NextBoard]_vars

NextLive ==
  \/ stepOne
  \/ TimerFired
  \/ onPauseResume
  \/ onCancel

\* single animated steps with timers that fire and a clock that advances:
\* a timer that is set fires (setTimeout), and a sleep whose time is tested
\* again and again is found elapsed (performance.now() grows)
\* the options of the select "animate every", on the preset endgame1
CadenceChoices == {"1", "5", "10", "last"}

InitCadence == Constructed({"endgame1"}, CadenceChoices) /\ PagesConstructed

NextCadence ==
  \/ stepManyAnimated
  \/ Timer

\* animated runs with each cadence, left to run to their end
SpecCadence == InitCadence /\ [][NextCadence]_vars

Fairness == \A id \in 1..MaxStarts : WF_fired(Fires(id)) /\ SF_passed(Passes(id))

SpecLive == Init /\ [][NextLive]_vars /\ Fairness

\* ------------------------------------------------------- the score alone
\* the function uct of the exercise page: uctValue on a child {id, N, W}
uct(parentN, child, C20) == uctValue(parentN, [N |-> child.N, W2 |-> 2 * child.W], C20)

MaxParentN == 12
MaxChildN == 6

\* the constants C tried, in twentieths (the sliders go from 0 to 10)
CRange == {0, 1, 20, 100, 200}

\* statistics a child can have: no more reward than visits
ChildStats == {c \in [N : 0..MaxChildN, W2 : 0..(2 * MaxChildN)] : c.W2 <= 2 * c.N}

\* a call of uctValue that has not returned yet
Calling(parentN, child, C20) ==
  [parentN |-> parentN, child |-> child, C20 |-> C20, value |-> 0, returned |-> FALSE]

Called(parentN, child, C20) ==
  [parentN |-> parentN, child |-> child, C20 |-> C20,
   value |-> uctValue(parentN, child, C20), returned |-> TRUE]

\* the call of uctValue returns
uctCall ==
  /\ ~call.returned
  /\ call' = Called(call.parentN, call.child, call.C20)
  /\ UNCHANGED <<controller, drive, flat>>

InitScore ==
  /\ Constructed({"empty"}, AnimateChoices)
  /\ drive = DriveConstructed
  /\ flat = FlatConstructed(10)
  /\ \E parentN \in 0..MaxParentN, child \in ChildStats, C20 \in CRange :
        call = Calling(parentN, child, C20)

\* calls of the score function on arguments of any kind
SpecScore == InitScore /\ [][uctCall]_vars

\* ------------------------------------------------ the selection exercise
schedule ==
  [A |-> <<1, 0, 1, 0, 1>>,
   B |-> <<0, 0, 1, 0, 0>>,
   C |-> <<1, 1, 0, 1, 1>>]

\* the values of C tried (the inputs go from 0 to 10)
DriveCChoices == {0, 20, 200}

MaxPicks == 4

\* uct(parentN, kids[id], C)
ValueOf(d, id) == uct(d.parentN, d.kids[id], d.C)

\* entries.sort((a, b) => b[1] - a[1]), then entries[0][0]: the sort is
\* stable, so the first of the ids with the largest value comes first
Best(d) ==
  Ids[CHOOSE k \in 1..Len(Ids) :
        /\ \A j \in 1..Len(Ids) : ValueOf(d, Ids[j]) <= ValueOf(d, Ids[k])
        /\ \A j \in 1..(k - 1) : ValueOf(d, Ids[j]) < ValueOf(d, Ids[k])]

\* the wrong pick of choose
WrongPick(d, id) ==
  [d EXCEPT !.feedback = "Not quite, try again.",
            !.disabledWrong = @ \cup {id}]

\* the correct pick of choose
CorrectPick(d, id, ix) ==
  [d EXCEPT !.feedback = "Correct",
            !.ptrs[id] = ix + 1,
            !.kids[id] = [N |-> @.N + 1, W |-> @.W + schedule[id][ix + 1]],
            !.parentN = @ + 1,
            !.disabledWrong = {}]

\* onClick={() => !disabled && choose(id)} of the button of child id
choose(id) ==
  /\ drive' = IF id \in drive.disabledWrong THEN drive
              ELSE IF id # Best(drive) THEN WrongPick(drive, id)
              ELSE CorrectPick(drive, id, drive.ptrs[id] % Len(schedule[id]))
  /\ drive'.parentN <= MaxPicks
  /\ UNCHANGED <<controller, call, flat>>

\* onChange of the inputs of C
setC(c) ==
  /\ drive' = [drive EXCEPT !.C = c]
  /\ UNCHANGED <<controller, call, flat>>

reset ==
  /\ drive' = DriveConstructed
  /\ UNCHANGED <<controller, call, flat>>

InitDrive == Constructed({"empty"}, AnimateChoices) /\ PagesConstructed

NextDrive ==
  \/ \E id \in {"A", "B", "C"} : choose(id)
  \/ \E c \in DriveCChoices : setC(c)
  \/ reset

\* the exercise with its buttons, its inputs of C and Reset
SpecDrive == InitDrive /\ [][NextDrive]_vars

\* ----------------------------------------------- the flat Monte Carlo demo
\* the values of simsPerMove tried
SimsChoices == {1, 2}

\* Math.random: the n-th draw of a call of run picks the element
\* (shift + n) mod length of the array it chooses from, for a shift in DrawSeeds
DrawSeeds == 0..2

randomChoice(arr, shift, n) == arr[((shift + n) % Len(arr)) + 1]

RECURSIVE rollout(_, _, _, _)
\* rollout from the test of winner, n draws made so far
rollout(b, p, shift, n) ==
  IF checkWinner(b) # NoOutcome THEN [outcome |-> checkWinner(b), n |-> n]
  ELSE rollout([b EXCEPT ![randomChoice(legalMoves(b), shift, n)] = p],
               Other(p), shift, n + 1)

\* if (outcome === player) wins++; else if (outcome === 'D') draws++; else losses++
Tally(acc, outcome, player) ==
  IF outcome = player THEN [acc EXCEPT !.wins = @ + 1]
  ELSE IF outcome = "D" THEN [acc EXCEPT !.draws = @ + 1]
  ELSE [acc EXCEPT !.losses = @ + 1]

RECURSIVE Playouts(_, _, _, _, _, _, _)
\* the pass of the loop of simulateMove after the rollout r
Played(base, move, player, k, acc, shift, r) ==
  Playouts(base, move, player, k - 1, Tally(acc, r.outcome, player), shift, r.n)

\* the last k passes of the loop of simulateMove
Playouts(base, move, player, k, acc, shift, n) ==
  IF k = 0 THEN [res |-> acc, n |-> n]
  ELSE Played(base, move, player, k, acc, shift,
              rollout([base EXCEPT ![move] = player], Other(player), shift, n))

simulateMove(base, move, player, sims, shift, n) ==
  Playouts(base, move, player, sims, [wins |-> 0, draws |-> 0, losses |-> 0], shift, n)

RECURSIVE AggLoop(_, _, _, _, _)
\* agg[m] = r.res, and the next pass of the loop over moves
AggSet(c, j, agg, shift, r) ==
  AggLoop(c, j + 1,
          [m \in DOMAIN agg \cup {c.moves[j]} |->
             IF m = c.moves[j] THEN r.res ELSE agg[m]],
          shift, r.n)

\* the loop of run over the moves of its render, from the j-th on
AggLoop(c, j, agg, shift, n) ==
  IF j > Len(c.moves) THEN agg
  ELSE AggSet(c, j, agg, shift,
              simulateMove(c.board, c.moves[j], c.currentPlayer, c.simsPerMove, shift, n))

\* run up to its await: the call keeps board, moves, currentPlayer and
\* simsPerMove of the render it was made in; the button is disabled while
\* isRunning, on a finished board and without moves
run ==
  /\ ~flat.isRunning
  /\ checkWinner(flat.board) = NoOutcome
  /\ Len(legalMoves(flat.board)) # 0
  /\ flat' = [flat EXCEPT !.isRunning = TRUE,
                          !.pending = [board |-> flat.board,
                                       moves |-> legalMoves(flat.board),
                                       currentPlayer |-> nextPlayer(flat.board),
                                       simsPerMove |-> flat.simsPerMove]]
  /\ UNCHANGED <<controller, call, drive>>

\* the 30 ms timer of run fires: the rest of run
runResumes ==
  /\ flat.pending # NoRun
  /\ \E shift \in DrawSeeds :
        flat' = [flat EXCEPT !.results = AggLoop(flat.pending, 1, << >>, shift, 0),
                            !.isRunning = FALSE,
                            !.pending = NoRun,
                            !.ranWith = flat.pending.simsPerMove]
  /\ UNCHANGED <<controller, call, drive>>

handlePreset(key) ==
  /\ flat' = [flat EXCEPT !.presetKey = key, !.board = PRESETS[key],
                          !.results = NoResults]
  /\ UNCHANGED <<controller, call, drive>>

MaxFlatMarks == 2

\* the marks placed on the preset
MarksPlaced == Len(legalMoves(PRESETS[flat.presetKey])) - Len(legalMoves(flat.board))

\* placeMark of the demo
placeMarkFlat(i) ==
  /\ MarksPlaced < MaxFlatMarks
  /\ flat' = IF checkWinner(flat.board) # NoOutcome \/ flat.board[i] # NoCell THEN flat
             ELSE [flat EXCEPT !.board[i] = nextPlayer(flat.board),
                               !.results = NoResults]
  /\ UNCHANGED <<controller, call, drive>>

resetBoard ==
  /\ flat' = [flat EXCEPT !.board = PRESETS[flat.presetKey], !.results = NoResults]
  /\ UNCHANGED <<controller, call, drive>>

\* onChange of the inputs of the simulations per move
setSimsPerMove(n) ==
  /\ flat' = [flat EXCEPT !.simsPerMove = n]
  /\ UNCHANGED <<controller, call, drive>>

\* the presets chosen in the demo
FlatPresetChoices == {"midgame1", "endgame1"}

InitFlat ==
  /\ Constructed({"empty"}, AnimateChoices)
  /\ call = NoCall
  /\ drive = DriveConstructed
  /\ \E sims \in SimsChoices : flat = FlatConstructed(sims)

NextFlat ==
  \/ run
  \/ runResumes
  \/ \E key \in FlatPresetChoices : handlePreset(key)
  \/ \E i \in Cells : placeMarkFlat(i)
  \/ resetBoard
  \/ \E n \in SimsChoices : setSimsPerMove(n)

\* the demo with its Run button, its board, its presets and Reset
SpecFlat == InitFlat /\ [][NextFlat]_vars

\* every UCT comparison made was one the fixed point values decide reliably
ExactNumerics == exact

\* ------------------------------------------------------------- properties
Runs == DOMAIN hist

Returned(id) == hist[id].added >= 0

\* C1: at most one run loop is in flight at any time
OneRunLoop == Len(loops) <= 1

\* C2: once a run has been cancelled (Cancel, or Reset during the run), no
\* step applies a further expansion or backpropagation of that run
CancelledRunIsStopped ==
  [][\A id \in Runs :
       hist[id].cancelReq =>
         /\ hist'[id].bp = hist[id].bp
         /\ hist'[id].ex = hist[id].ex]_vars

\* C3: every backpropagation of a run that was not cancelled adds one visit
\* to the root the run works on (for a run on the persistent tree: the root
\* the controller held when the run started)
RootVisitsFollowIterations ==
  \A id \in Runs : ~hist[id].cancelReq => hist[id].rootInc = hist[id].bp

\* C4: every node ever created has wins + draws + losses = N and
\* 0 <= W <= N (W2 is twice W)
NodeCountersConsistent ==
  \A k \in 1..Len(heap) :
    /\ heap[k].wins + heap[k].draws + heap[k].losses = heap[k].N
    /\ 0 <= heap[k].W2
    /\ heap[k].W2 <= 2 * heap[k].N

\* C4 happens: a batch has run on the tree, a single step on the same tree
\* was cancelled after its backpropagation, and a node has rollouts won,
\* drawn or lost behind it
NodeCountersWitness ==
  /\ \E id \in Runs : hist[id].cancelReq /\ hist[id].bp >= 1 /\ Returned(id)
  /\ \E id \in Runs : ~hist[id].cancelReq /\ hist[id].bp >= 2
  /\ \E k \in 1..Len(heap) :
       /\ heap[k].N >= 3
       /\ heap[k].wins >= 1
       /\ heap[k].draws + heap[k].losses >= 1

\* C5: the published root is a node for the board that is displayed
RootIsForBoard == heap[root].board = board

\* C6: a batch run for which Cancel was clicked before any other event
\* was handled after its request has counted fewer iterations than it was
\* asked for
BatchCancelStopsEarly ==
  \A id \in Runs :
    (hist[id].kind \in {"runBatch", "runBatchFresh"} /\ hist[id].cancelClick /\ Returned(id))
      => hist[id].added < hist[id].n

\* C7: the iterations a run adds to totalIters are the backpropagations it
\* applied
CountedIsApplied ==
  \A id \in Runs : Returned(id) => hist[id].added = hist[id].bp

\* C8: in a step that starts and ends with the pause flag set, no run
\* expands or backpropagates and the random source is left as it is
PausedRunIsFrozen ==
  [][(token.paused /\ ~token.cancelled /\ token'.paused) =>
       /\ rng' = rng
       /\ \A id \in Runs : hist'[id].bp = hist[id].bp /\ hist'[id].ex = hist[id].ex]_vars

\* C9: every backpropagation rewards the side to move at the root of the
\* tree it updates
RewardForRootSide == \A id \in Runs : hist[id].sideOk

\* the boards a run can start on: the preset boards and what marks make of them
RECURSIVE MarkedBoards(_, _)
MarkedBoards(B, k) ==
  IF k = 0 THEN B
  ELSE MarkedBoards(
         B \cup {[x[1] EXCEPT ![x[2]] = nextPlayer(x[1])] :
                   x \in {y \in B \X Cells :
                            checkWinner(y[1]) = NoOutcome /\ y[1][y[2]] = NoCell}},
         k - 1)

StartBoards ==
  {b \in MarkedBoards({PRESETS[k] : k \in PresetChoices}, MaxBoardEvents) :
     checkWinner(b) = NoOutcome}

\* the tree of n iterations on a new single-node tree of board b with a
\* generator seeded s, nothing else drawing from it
CleanRun(b, n, s, C20) ==
  LET st0 == makeNode([heap |-> << >>, maps |-> << >>,
                       rng |-> createMulberry32(s), exact |-> TRUE],
                      b, nextPlayer(b), NoNode, NoMove)
  IN Visits(FastIters(st0, 1, C20, b, n), 1)

CleanRuns ==
  [b \in StartBoards, n \in {1} \cup IterChoices, s \in SeedChoices, c \in CChoices |->
     CleanRun(b, n, s, c)]

\* C10: a run that started from a single-node tree and was not cancelled
\* ends with the tree (visits at the root and of its children, best move)
\* that its seed, board, C and iteration count determine
UncancelledRunsAgree ==
  \A id \in Runs :
    (Returned(id) /\ ~hist[id].cancelReq /\ hist[id].pristine)
      => hist[id].final = CleanRuns[hist[id].startedOn, hist[id].n, seed, C]

\* C11: an animated multi-iteration run on a root of its own that was not
\* cancelled ends with the tree (visits at the root and of its children,
\* best move) that a batch of fast iterations on a new root makes of the
\* same seed, board, C and iteration count
AnimatedAgreesWithBatch ==
  \A id \in Runs :
    (hist[id].kind = "stepMany" /\ hist[id].fresh /\ Returned(id) /\ ~hist[id].cancelReq)
      => hist[id].final = CleanRuns[hist[id].startedOn, hist[id].n, seed, C]

\* the moves under which the node k has a child
ChildMoves(k) == {Kids(World, k)[j].m : j \in 1..Len(Kids(World, k))}

\* the nodes that are children of the nodes in S
ChildrenOf(S) == UNION {{Kids(World, k)[j].c : j \in 1..Len(Kids(World, k))} : k \in S}

\* S and everything below it
RECURSIVE Below(_)
Below(S) == IF ChildrenOf(S) \subseteq S THEN S ELSE Below(S \cup ChildrenOf(S))

\* the nodes of the tree that is published as root
TreeNodes == Below({root})

Untried(k) == {heap[k].untried[j] : j \in 1..Len(heap[k].untried)}

Empty(b) == {i \in Cells : b[i] = NoCell}

\* C12: at every node of the published tree the untried moves and the moves
\* that have a child are disjoint and are together the empty cells of the
\* node's board
UntriedAndChildrenPartition ==
  \A k \in TreeNodes :
    /\ Untried(k) \cap ChildMoves(k) = {}
    /\ Untried(k) \cup ChildMoves(k) = Empty(heap[k].board)

\* C13: in the published tree every child entry (m, c) of a node n has
\* c.parent = n and c.moveFromParent = m, and no node is the child of two
\* nodes
LinksConsistent ==
  /\ \A k \in TreeNodes : \A j \in 1..Len(Kids(World, k)) :
        /\ heap[Kids(World, k)[j].c].parent = k
        /\ heap[Kids(World, k)[j].c].moveFromParent = Kids(World, k)[j].m
  /\ \A k1, k2 \in TreeNodes :
        k1 # k2 => ChildrenOf({k1}) \cap ChildrenOf({k2}) = {}

\* a click on one of the four run buttons
StartHandler == stepOne \/ runBatch \/ runBatchFresh \/ stepManyAnimated

\* C14: a run requested while the root is a node of a finished game changes
\* neither the tree nor totalIters, the run token or the running flag
TerminalRootNoWork ==
  [][(heap[root].terminal # NoOutcome /\ StartHandler)
       => UNCHANGED <<heap, maps, root, rng, totalIters, token, isRunning>>]_vars

\* C14 happens: a run was requested on a finished game whose root is terminal
TerminalRootRequest ==
  /\ heap[root].terminal # NoOutcome
  /\ lastStart = OnFinishedGame

\* C15: a click on Pause/Resume or Cancel while the running flag is down,
\* or while no call of a run is in flight, changes neither the run token nor
\* the flags, the phase markers or the tree
IdleControlsChangeNothing ==
  [][((~isRunning \/ loops = << >>) /\ (onPauseResume \/ onCancel))
       => UNCHANGED <<token, paused, isRunning, phase, selRootMove, expRootMove,
                      simOverlay, heap, maps, root, rng, totalIters>>]_vars

\* C15 happens: Cancel was clicked while the running flag was down, for a
\* run that had already returned
IdleCancelClicked ==
  /\ ~isRunning
  /\ \E id \in Runs : hist[id].cancelClick /\ ~hist[id].cancelReq /\ Returned(id)

Idle == ~isRunning /\ ~paused /\ phase = "idle"

\* C16: after Cancel was requested on a run in flight, the call of that run
\* eventually returns, and the controller is then idle (not running, not
\* paused, phase idle)
CancelledCallReturns ==
  \A id \in 1..MaxStarts :
    (id \in Runs /\ hist[id].cancelReq /\ ~Returned(id)) ~> (id \in Runs /\ Returned(id) /\ Idle)

\* C16, second part: if from some time on the run token is not paused,
\* every run that was started eventually returns
UnpausedRunEnds ==
  (<>[](~token.paused)) => \A id \in 1..MaxStarts : (id \in Runs) ~> (id \in Runs /\ Returned(id))

\* the children of the root shown, in the order they were inserted
RootKids == Kids(World, root)

ChildN(j) == heap[RootKids[j].c].N

\* the first child, in insertion order, among those with the most visits
MostVisited(j) ==
  /\ \A k \in 1..Len(RootKids) : ChildN(k) <= ChildN(j)
  /\ \A k \in 1..(j - 1) : ChildN(k) < ChildN(j)

\* C17: bestChildMove is none exactly when the root has no children;
\* otherwise it is the move of the child inserted first among the children
\* with the highest N
BestMoveIsMostVisited ==
  /\ (bestChildMove(World, root) = NoMove) <=> (RootKids = << >>)
  /\ \A j \in 1..Len(RootKids) :
        MostVisited(j) => bestChildMove(World, root) = RootKids[j].m

\* two children share the highest N, and a child with fewer visits has a
\* higher average reward than the child bestChildMove picks
BestMoveTie ==
  \E j, k, q \in 1..Len(RootKids) :
    /\ MostVisited(j)
    /\ k > j
    /\ ChildN(k) = ChildN(j)
    /\ 0 < ChildN(q) /\ ChildN(q) < ChildN(j)
    /\ heap[RootKids[q].c].W2 * ChildN(j) > heap[RootKids[j].c].W2 * ChildN(q)

\* the boards of the nodes made so far and the board shown
KnownBoards == {board} \cup {heap[n].board : n \in 1..Len(heap)}

\* the board after the first j marks of trace were placed on b
RECURSIVE Marked(_, _, _)
Marked(b, trace, j) ==
  IF j = 0 THEN b
  ELSE [Marked(b, trace, j - 1) EXCEPT ![trace[j].idx] = trace[j].player]

\* the generator after k draws
RECURSIVE Drawn(_, _)
Drawn(g, k) == IF k = 0 THEN g ELSE Advance(Drawn(g, k - 1))

\* ro is what a rollout from board b with p to move and generator g returns
RolloutOk(b, p, g, ro) ==
  /\ Len(ro.trace) <= Cardinality(Empty(b))
  /\ \A j \in 1..Len(ro.trace) :
        /\ Marked(b, ro.trace, j - 1)[ro.trace[j].idx] = NoCell
        /\ ro.trace[j].player = IF j % 2 = 1 THEN p ELSE Other(p)
  /\ checkWinner(b) # NoOutcome => ro.trace = << >> /\ ro.rng = g
  /\ ro.rng = Drawn(g, Len(ro.trace))
  /\ ro.final = Marked(b, ro.trace, Len(ro.trace))
  /\ ro.outcome # NoOutcome
  /\ ro.outcome = checkWinner(ro.final)

\* C18: a rollout from any board and side ends after at most as many moves
\* as the board has empty cells; each mark of its trace is on a cell that was
\* empty, the sides alternate from the given side, the trace is empty and no
\* draw is made when the board is terminal, and the outcome is that of the
\* final board
RolloutEndsWithinEmptyCells ==
  \A b \in KnownBoards : \A p \in {"X", "O"} :
    RolloutOk(b, p, rng, rolloutWithTrace(b, p, rng))

\* a rollout of three moves or more from the board shown, and a terminal
\* board among the nodes
LongRollout ==
  /\ Len(rolloutWithTrace(board, nextPlayer(board), rng).trace) >= 3
  /\ \E n \in 1..Len(heap) : heap[n].terminal # NoOutcome

\* pass i of a run of n iterations is one the cadence chosen makes visible
Visible(i, n) ==
  \/ i = 1
  \/ i = n
  \/ animateEvery # "last" /\ i % ParseInt(animateEvery) = 0

CadenceFollowed ==
  \A id \in Runs :
    hist[id].kind = "stepMany" =>
      /\ \A i \in hist[id].shown : Visible(i, hist[id].n)
      /\ \A i \in hist[id].quick : ~Visible(i, hist[id].n)
      /\ (Returned(id) /\ ~hist[id].cancelReq)
            => hist[id].shown \cup hist[id].quick = 1..hist[id].n

\* the call of run id returns in this step, and the root shown after it is
\* the tree the call has made
PublishedAtEnd ==
  \A id \in Runs :
    (hist[id].kind = "stepMany" /\ ~Returned(id) /\ Returned(id)')
      => Visits(World, root)' = hist'[id].final

MarksRejected ==
  \A i \in Cells :
    ((terminal # NoOutcome \/ board[i] # NoCell) /\ placeMarkNoted(i))
      => UNCHANGED <<board, root, heap, maps>>

\* the board shown changes by a mark of the side to move on an empty cell,
\* or by Reset to the preset
BoardFilled ==
  board' # board =>
    \/ board' = PRESETS[presetKey]
    \/ \E i \in Cells : board[i] = NoCell /\ board' = [board EXCEPT ![i] = currentPlayer]

\* the board of a node made by an expansion is the board of its parent with
\* the parent's side on one cell that was empty
NodeBoards ==
  \A n \in 1..Len(heap) :
    heap[n].parent # NoNode =>
      /\ heap[heap[n].parent].board[heap[n].moveFromParent] = NoCell
      /\ heap[n].board = [heap[heap[n].parent].board
                            EXCEPT ![heap[n].moveFromParent] = heap[heap[n].parent].toMove]

\* each mark of the trace of a rollout under way is on a cell that was empty
TracesOnEmpty ==
  \A k \in 1..Len(loops) : \A j \in 1..Len(loops[k].trace) :
    Marked(heap[loops[k].node].board, loops[k].trace, j - 1)[loops[k].trace[j].idx] = NoCell

\* C20: a mark on an occupied cell, or on a finished game, is refused and
\* leaves board and tree unchanged; no occupied cell is overwritten, on the
\* board shown, in the board of a node made by expansion, or by a rollout
NoCellOverwritten ==
  /\ [][MarksRejected /\ BoardFilled]_vars
  /\ [](NodeBoards /\ TracesOnEmpty)

\* a click on an occupied cell was refused after a mark was placed, the tree
\* has a node made by expansion, and a rollout with a trace is under way
RefusedClick ==
  /\ refused # NoMove
  /\ board[refused] # NoCell
  /\ boardEvents > 0
  /\ \E n \in 1..Len(heap) : heap[n].parent # NoNode
  /\ \E k \in 1..Len(loops) : loops[k].trace # << >>

\* the step replaces the root: the board changes or is reset
RootReplaced == boardEvents' # boardEvents

KidScore(n, j, C20) == uctValue(heap[n].N, heap[Kids(World, n)[j].c], C20)

\* twice the total reward of child a times the visits of child b
CrossReward(a, b) == heap[a].W2 * (IF heap[b].N > 0 THEN heap[b].N ELSE 1)

\* the average reward of child a (0 when unvisited) is at least that of b
RewardRateAtLeast(a, b) ==
  (IF heap[a].N > 0 THEN CrossReward(a, b) ELSE 0)
    >= (IF heap[b].N > 0 THEN CrossReward(b, a) ELSE 0)

\* b is what the loop over the children of n leaves for the constant C20
PickOk(n, C20, b) ==
  /\ \E j \in 1..Len(Kids(World, n)) :
        /\ Kids(World, n)[j].c = b.node
        /\ \A k \in 1..Len(Kids(World, n)) : KidScore(n, k, C20) <= KidScore(n, j, C20)
  /\ b.st.rng # rng
       => \E j, k \in 1..Len(Kids(World, n)) :
            j # k /\ KidScore(n, j, C20) = KidScore(n, k, C20)
  /\ C20 = 0 => \A k \in 1..Len(Kids(World, n)) :
                   RewardRateAtLeast(b.node, Kids(World, n)[k].c)

\* r is what select returns from node n
EndOk(n, r) ==
  /\ ~Descends(World, r.node)
  /\ r.node # n => Descends(World, n) /\ r.node \in Below({n})

\* C22: selection descends only from a node that is not terminal, has no
\* untried move and has a child, to a child of maximal score; it ends at a
\* node that is terminal, has an untried move or has no child; with C = 0
\* the child has a maximal average reward; a draw is made only on a tie
SelectionPicksMax ==
  \A n \in 1..Len(heap) : \A C20 \in {0, C} :
    /\ Descends(World, n) => PickOk(n, C20, BestChild(World, n, C20))
    /\ EndOk(n, select(World, n, C20))

\* a node with children whose pick is decided by a draw, and whose pick
\* with C = 0 is another child
SelectionTie ==
  \E n \in 1..Len(heap) :
    /\ Descends(World, n)
    /\ BestChild(World, n, C).st.rng # rng
    /\ BestChild(World, n, 0).node # BestChild(World, n, C).node

\* the elements of a list
Range(arr) == {arr[k] : k \in 1..Len(arr)}

\* the child e.node that the expansion of n made in the store e.st
ChildMade(n, e) ==
  \E m \in Range(heap[n].untried) :
    /\ Len(e.st.heap[n].untried) = Len(heap[n].untried) - 1
    /\ Range(e.st.heap[n].untried) = Range(heap[n].untried) \ {m}
    /\ Len(Kids(e.st, n)) = Len(Kids(World, n)) + 1
    /\ \A k \in 1..Len(Kids(World, n)) : Kids(e.st, n)[k] = Kids(World, n)[k]
    /\ Kids(e.st, n)[Len(Kids(e.st, n))] = [m |-> m, c |-> e.node]
    /\ e.node = Len(heap) + 1
    /\ Len(e.st.heap) = Len(heap) + 1
    /\ e.st.heap[e.node] =
         [board |-> [heap[n].board EXCEPT ![m] = heap[n].toMove],
          toMove |-> Other(heap[n].toMove), parent |-> n, moveFromParent |-> m,
          children |-> Len(maps) + 1, untried |-> legalMoves(e.st.heap[e.node].board),
          N |-> 0, W2 |-> 0, wins |-> 0, draws |-> 0, losses |-> 0,
          terminal |-> checkWinner(e.st.heap[e.node].board)]
    /\ Kids(e.st, e.node) = << >>
    /\ \A k \in 1..Len(heap) : k # n => e.st.heap[k] = heap[k]

\* e is what expand returns for the node n
ExpandOk(n, e) ==
  IF heap[n].terminal # NoOutcome \/ heap[n].untried = << >>
  THEN e.st = World /\ e.node = n
  ELSE ChildMade(n, e)

\* C23: expanding a node that is not terminal and has an untried move
\* removes one move m from untried and adds one child under key m (the
\* node's board with its side at m, the other side to move, the node as
\* parent, zero statistics, the terminal status of its board); expanding
\* another node changes nothing; one iteration adds at most one node
ExpansionAddsOneChild ==
  /\ \A n \in TreeNodes : ExpandOk(n, expand(World, n))
  /\ Len(oneIterationFast(World, root, C, board).heap) <= Len(heap) + 1

\* the call r sleeps after the part at of its visible iteration
SleepsAfter(r, at) == r.at = at /\ r.pc \in {"sleep", "sleepPaused"}

\* the selection of the call r went down from its root, and the marker
\* shown is the move of the child of the root it went through
SelectionMarked ==
  \A k \in 1..Len(loops) :
    (SleepsAfter(loops[k], "sel") /\ phase = "selection"
       /\ loops[k].node # loops[k].workRoot)
      => \E j \in 1..Len(Kids(World, loops[k].workRoot)) :
           /\ Kids(World, loops[k].workRoot)[j].m = selRootMove
           /\ loops[k].node \in Below({Kids(World, loops[k].workRoot)[j].c})

\* the step is the expansion of the visible iteration of a call, and the
\* marker shown after it is the key under which the root holds the new node
ExpansionMarked ==
  \A k \in 1..Len(loops') :
    (/\ SleepsAfter(loops'[k], "exp")
     /\ hist'[loops'[k].id].ex = hist[loops'[k].id].ex + 1)
      => \A j \in 1..Len(maps'[heap'[loops'[k].workRoot].children]) :
           maps'[heap'[loops'[k].workRoot].children][j].c = loops'[k].node
             => expRootMove' = maps'[heap'[loops'[k].workRoot].children][j].m

\* C24: in a visible iteration the selection marker is the move of the
\* child of the root that selection went down through, and the expansion
\* marker is the move of the child of the root that expansion made, also on
\* a tree kept from an earlier step or run
MarkersFollowRootChild == []SelectionMarked /\ [][ExpansionMarked]_vars

\* the phase a visible iteration publishes after the phase p
PhaseAfter(p) ==
  CASE p = "idle" -> "selection"
    [] p = "selection" -> "expansion"
    [] p = "expansion" -> "simulation"
    [] p = "simulation" -> "backprop"
    [] p = "backprop" -> "idle"

\* the step changes the phase to the next one, or to idle as the run ends
\* or is cancelled
PhaseStep ==
  phase' # phase => \/ phase' = PhaseAfter(phase)
                    \/ phase' = "idle" /\ ~isRunning'

\* the step backpropagates in a visible iteration, and shows that phase
BackpropInPhase ==
  \A id \in Runs :
    (hist[id].kind = "stepOne" /\ hist'[id].bp # hist[id].bp) => phase' = "backprop"

\* C25: in a visible iteration the phase goes through selection, expansion,
\* simulation and backpropagation in this order, none left out and none
\* twice, and is idle again when the iteration is over or the run ends or is
\* cancelled; the tree is backpropagated only in the backpropagation phase
PhasesInOrder == [][PhaseStep /\ BackpropInPhase]_vars

\* q is floor(10^8 * W / N), the average reward of the child in units of
\* 10^-8 (0 for a child without visits)
IsRewardRate(q, child) ==
  IF child.N > 0
  THEN /\ q * child.N <= (Scale \div 2) * child.W2
       /\ (Scale \div 2) * child.W2 < (q + 1) * child.N
  ELSE q = 0

\* 10^8 * ln k and 10^8 / m from the tables of square roots
LnScaled(k) == MulScaled(SqrtLn[k], SqrtLn[k])
InvScaled(m) == MulScaled(InvSqrt[m], InvSqrt[m])

Near(a, b, eps) == a - b <= eps /\ b - a <= eps

\* the tables hold the square roots of a logarithm (ln 1 = 0,
\* ln 2 = 0.69314718, ln ab = ln a + ln b, growing) and of 1/m
TablesOk ==
  /\ SqrtLn[1] = 0
  /\ Near(LnScaled(2), 69314718, 4)
  /\ \A a, b \in 1..(MaxParentN + 1) :
        a * b <= MaxParentN + 1 => Near(LnScaled(a * b), LnScaled(a) + LnScaled(b), 12)
  /\ \A k \in 1..MaxParentN : SqrtLn[k] < SqrtLn[k + 1]
  /\ \A m \in 1..(MaxChildN + 1) : Near(InvScaled(m) * m, Scale, 4 * m)

Unvisited == [N |-> 0, W2 |-> 0]

\* from some C on, the child without visits scores higher than child
UnvisitedWinsForLargeC(parentN, child) ==
  \E c0 \in CRange : \A c1 \in CRange :
    c1 >= c0 => uctValue(parentN, Unvisited, c1) - uctValue(parentN, child, c1) >= Margin(c1)

\* the value of the call is the average reward plus a bonus that is not
\* negative, is zero for C = 0 and grows with C and with the parent's visits
ScoreIsRatePlusBonus ==
  /\ call.value \in Nat
  /\ IsRewardRate(uctValue(call.parentN, call.child, 0), call.child)
  /\ call.value >= uctValue(call.parentN, call.child, 0)
  /\ \A c1 \in CRange : c1 >= call.C20 => uctValue(call.parentN, call.child, c1) >= call.value
  /\ call.parentN < MaxParentN
       => uctValue(call.parentN + 1, call.child, call.C20) >= call.value
  /\ (call.C20 > 0 /\ call.parentN > 0)
       => call.value - uctValue(call.parentN, call.child, 0)
            < uctValue(call.parentN, Unvisited, call.C20)
               + IF call.child.N = 0 THEN 1 ELSE 0
  /\ call.value <= Scale + (SqrtLn[call.parentN + 1] \div 20 + 1) * call.C20

RECURSIVE SumN(_, _)
\* the visits of the first k children of the published root together
SumN(kids, k) == IF k = 0 THEN 0 ELSE heap[kids[k].c].N + SumN(kids, k - 1)

ChildVisits == SumN(RootKids, Len(RootKids))

\* a call that has returned made one iteration from a single-node tree
FirstIteration(id) == Returned(id) /\ hist[id].pristine /\ hist[id].added = 1

\* C27: with no run in flight, the published root of a position that is not
\* finished has as many visits as its children together; the one iteration
\* of a run on a new root leaves one child, with one visit
RootVisitsAreChildVisits ==
  loops = << >> =>
    /\ heap[root].terminal = NoOutcome => heap[root].N = ChildVisits
    /\ \A id \in Runs :
         (FirstIteration(id) /\ hist[id].final.N = 1)
           => \E m \in Cells : hist[id].final.byMove = [k \in Cells |-> IF k = m THEN 1 ELSE -1]

\* C28: with no run in flight every node of the published tree but the
\* root has been visited, and so has the child of the recommended move,
\* also after a visible run that was cancelled
TreeNodesVisited ==
  loops = << >> =>
    /\ \A n \in TreeNodes \ {root} : heap[n].N >= 1
    /\ \A j \in 1..Len(RootKids) :
         RootKids[j].m = bestChildMove(World, root) => ChildN(j) >= 1

\* the child to choose has its button enabled
BestEnabled == Best(drive) \notin drive.disabledWrong

\* a step that is a wrong pick (a button more is disabled) leaves the
\* statistics alone
WrongPickKeeps ==
  (drive.disabledWrong \subseteq drive'.disabledWrong
     /\ drive'.disabledWrong # drive.disabledWrong)
    => /\ drive'.kids = drive.kids
       /\ drive'.parentN = drive.parentN
       /\ drive'.ptrs = drive.ptrs

TotalIsSum ==
  drive.parentN = drive.kids["A"].N + drive.kids["B"].N + drive.kids["C"].N

\* C29: in the exercise the child that maximizes UCT is never disabled,
\* whatever picks and changes of C were made; a wrong pick changes no visit
\* count, reward or total; the total is the sum of the children's visits
CorrectChoiceStaysEnabled ==
  [](BestEnabled /\ TotalIsSum) /\ [][WrongPickKeeps]_vars

\* C30: in the demo, results that are present hold one entry for every
\* legal move of the board displayed and for no other cell, each with as
\* many playouts as the simsPerMove of the run that made them, also when
\* the board was changed while the run was pending
ResultsBelongToBoard ==
  flat.results # NoResults =>
    /\ DOMAIN flat.results = Range(legalMoves(flat.board))
    /\ \A m \in DOMAIN flat.results :
         flat.results[m].wins + flat.results[m].draws + flat.results[m].losses
           = flat.ranWith

====
